---------------------------- MODULE Spec2Model ----------------------------
(***************************************************************************)
(* Model of the filtered sampling engine of                               *)
(* src/Data_collection/fetch_raw_data.py: parse_filter_config (the config *)
(* normalizer), the filter inlined in the scan loop of                    *)
(* fetch_filtered_games, and the scan / rank / truncate pipeline of       *)
(* fetch_filtered_games itself.                                           *)
(*                                                                         *)
(* Python values that may be None, an int or a str are encoded as records *)
(* [t, i, s]; strings are sequences of one-character strings so that      *)
(* int(), str(), strip(), lower() and re.search are computed, not assumed.*)
(***************************************************************************)
EXTENDS Integers, Sequences, FiniteSets, TLC

(***************************************************************************)
(* Bounds of the model.                                                    *)
(***************************************************************************)
MaxRawInt == 2
MaxApps == 2
MaxTargetN == 2

(***************************************************************************)
(* Program constants.                                                      *)
(***************************************************************************)
DefaultTargetN == 500
TopFactor == 5
RandomFactor == 2
DefensiveFactor == 10
MinAutoCandidates == 2000
UnboundedMaxGames == 50000
DefaultMaxCandidates == 5000

(***************************************************************************)
(* Python values.                                                          *)
(***************************************************************************)
PyNone == [t |-> "none", i |-> 0, s |-> <<>>]
PyInt(n) == [t |-> "int", i |-> n, s |-> <<>>]
PyStr(cs) == [t |-> "str", i |-> 0, s |-> cs]

Digits == <<"0", "1", "2", "3", "4", "5", "6", "7", "8", "9">>
IsDigit(c) == \E k \in 1..10 : Digits[k] = c
DigitVal(c) == (CHOOSE k \in 1..10 : Digits[k] = c) - 1
IsSpace(c) == c = " "

\* str.strip(): drop leading and trailing whitespace.
RECURSIVE LStrip(_)
LStrip(cs) == IF cs # <<>> /\ IsSpace(Head(cs)) THEN LStrip(Tail(cs)) ELSE cs
RECURSIVE RStrip(_)
RStrip(cs) ==
    IF cs # <<>> /\ IsSpace(cs[Len(cs)])
    THEN RStrip(SubSeq(cs, 1, Len(cs) - 1))
    ELSE cs
Strip(cs) == RStrip(LStrip(cs))

\* The value of a run of decimal digits.
RECURSIVE DigitsVal(_)
DigitsVal(cs) ==
    IF cs = <<>> THEN 0
    ELSE 10 * DigitsVal(SubSeq(cs, 1, Len(cs) - 1)) + DigitVal(cs[Len(cs)])

\* int(str): surrounding whitespace stripped, an optional sign, then one or
\* more digits; anything else raises ValueError (ok = FALSE).
IntOfStr(cs) ==
    LET body == Strip(cs)
        signed == body # <<>> /\ Head(body) \in {"-", "+"}
        digs == IF signed THEN Tail(body) ELSE body
    IN  IF digs # <<>> /\ \A k \in 1..Len(digs) : IsDigit(digs[k])
        THEN [ok |-> TRUE,
              v |-> IF signed /\ Head(body) = "-"
                    THEN 0 - DigitsVal(digs) ELSE DigitsVal(digs)]
        ELSE [ok |-> FALSE, v |-> 0]

\* int(x) for x an int or a str (None is never passed: it is a null form of
\* every numeric field and is handled before int() is reached).
PyIntOf(x) ==
    IF x.t = "int" THEN [ok |-> TRUE, v |-> x.i]
    ELSE IF x.t = "str" THEN IntOfStr(x.s)
    ELSE [ok |-> FALSE, v |-> 0]

\* str(n) for an int n.
RECURSIVE NatToStr(_)
NatToStr(n) ==
    IF n < 10 THEN <<Digits[n + 1]>>
    ELSE NatToStr(n \div 10) \o <<Digits[(n % 10) + 1]>>
PyStrOf(x) ==
    IF x.t = "str" THEN x.s
    ELSE IF x.t = "int"
         THEN (IF x.i < 0 THEN <<"-">> \o NatToStr(0 - x.i) ELSE NatToStr(x.i))
    ELSE <<"N", "o", "n", "e">>

\* str.lower() on the letters the model uses.
LowerChar(c) ==
    CASE c = "I" -> "i"
      [] c = "N" -> "n"
      [] c = "D" -> "d"
      [] c = "E" -> "e"
      [] c = "A" -> "a"
      [] OTHER -> c
Lower(cs) == [k \in 1..Len(cs) |-> LowerChar(cs[k])]

Max(a, b) == IF a >= b THEN a ELSE b


(***************************************************************************)
(* parse_filter_config                                                     *)
(***************************************************************************)
Failed(msg) ==
    [err |-> msg, target_n |-> 0, min_year |-> PyNone,
     target_main_genre |-> PyNone, free_only |-> "null",
     sample_mode |-> "", max_candidates |-> 0]

\* raw_target_n in (None, 0, "", "0")
IsNullTargetN(raw) ==
    raw \in {PyNone, PyInt(0), PyStr(<<>>), PyStr(<<"0">>)}
\* raw_min_year in (None, 0, "")
IsNullMinYear(raw) == raw \in {PyNone, PyInt(0), PyStr(<<>>)}
\* raw_max_candidates in (None, "", "0", 0)
IsNullMaxCandidates(raw) ==
    raw \in {PyNone, PyStr(<<>>), PyStr(<<"0">>), PyInt(0)}

\* Mutant: a parsed target_n <= 0 is returned instead of the default.
ParseTargetNKeepsNonPositive(raw, default_target_n) ==
    IF IsNullTargetN(raw) THEN [ok |-> TRUE, v |-> default_target_n]
    ELSE LET p == PyIntOf(raw)
         IN  IF ~p.ok THEN [ok |-> FALSE, v |-> 0]
             ELSE [ok |-> TRUE, v |-> p.v]

\* target_n: default for a null form, ValueError for a non-integer, default
\* again for a parsed value <= 0.
ParseTargetN(raw, default_target_n) ==
    IF IsNullTargetN(raw) THEN [ok |-> TRUE, v |-> default_target_n]
    ELSE LET p == PyIntOf(raw)
         IN  IF ~p.ok THEN [ok |-> FALSE, v |-> 0]
             ELSE IF p.v <= 0 THEN [ok |-> TRUE, v |-> default_target_n]
             ELSE [ok |-> TRUE, v |-> p.v]

ParseMinYear(raw) ==
    IF IsNullMinYear(raw) THEN [ok |-> TRUE, v |-> PyNone]
    ELSE LET p == PyIntOf(raw)
         IN  IF ~p.ok THEN [ok |-> FALSE, v |-> PyNone]
             ELSE [ok |-> TRUE, v |-> PyInt(p.v)]

ParsePriceFlag(price_flag) ==
    IF price_flag = PyInt(0) THEN [ok |-> TRUE, v |-> "null"]
    ELSE IF price_flag = PyInt(1) THEN [ok |-> TRUE, v |-> "true"]
    ELSE IF price_flag = PyInt(2) THEN [ok |-> TRUE, v |-> "false"]
    ELSE [ok |-> FALSE, v |-> "null"]

ParseSampleFlag(sample_flag) ==
    IF sample_flag = PyInt(0) THEN [ok |-> TRUE, v |-> "random"]
    ELSE IF sample_flag = PyInt(1) THEN [ok |-> TRUE, v |-> "top"]
    ELSE [ok |-> FALSE, v |-> ""]

\* genre_str = "" if raw_genre is None else str(raw_genre).strip();
\* target_main_genre = genre_str or None
ParseGenre(raw_genre) ==
    LET genre_str == IF raw_genre = PyNone THEN <<>>
                     ELSE Strip(PyStrOf(raw_genre))
    IN  IF genre_str = <<>> THEN PyNone ELSE PyStr(genre_str)

\* Mutant: the automatic bound without its floor of 2000.
AutoMaxCandidatesNoFloor(target_n, sample_mode) ==
    IF sample_mode = "top" THEN target_n * TopFactor
    ELSE target_n * RandomFactor

\* The automatic soft bound of a null-form max_candidates.
AutoMaxCandidates(target_n, sample_mode) ==
    IF sample_mode = "top"
    THEN Max(target_n * TopFactor, MinAutoCandidates)
    ELSE target_n * RandomFactor

ParseMaxCandidates(raw, target_n, sample_mode) ==
    IF IsNullMaxCandidates(raw)
    THEN [ok |-> TRUE, v |-> AutoMaxCandidates(target_n, sample_mode)]
    ELSE LET p == PyIntOf(raw)
         IN  IF ~p.ok THEN [ok |-> FALSE, v |-> 0]
             ELSE IF p.v = -1 THEN [ok |-> TRUE, v |-> -1]
             ELSE IF p.v <= 0
                  THEN [ok |-> TRUE,
                        v |-> Max(target_n * DefensiveFactor, MinAutoCandidates)]
             ELSE [ok |-> TRUE, v |-> p.v]

parse_filter_config(config, default_target_n) ==
    IF Len(config) \notin {5, 6}
    THEN Failed("config must have 5 or 6 elements")
    ELSE
    LET raw_max_candidates == IF Len(config) = 5 THEN PyNone ELSE config[6]
        tn == ParseTargetN(config[1], default_target_n)
        my == ParseMinYear(config[2])
        fo == ParsePriceFlag(config[3])
        sm == ParseSampleFlag(config[4])
        mc == ParseMaxCandidates(raw_max_candidates, tn.v, sm.v)
    IN  IF ~tn.ok THEN Failed("target_n must be an integer or 0")
        ELSE IF ~my.ok THEN Failed("min_year must be an integer or 0")
        ELSE IF ~fo.ok
             THEN Failed("price_flag must be 0 (no), 1 (free only), or 2 (paid only)")
        ELSE IF ~sm.ok
             THEN Failed("sample_mode_flag must be 0 (random) or 1 (top)")
        ELSE IF ~mc.ok THEN Failed("max_candidates must be an integer or 0/-1")
        ELSE [err |-> "", target_n |-> tn.v, min_year |-> my.v,
              target_main_genre |-> ParseGenre(config[5]),
              free_only |-> fo.v, sample_mode |-> sm.v,
              max_candidates |-> mc.v]

(***************************************************************************)
(* The filter inlined in the scan loop of fetch_filtered_games.            *)
(* A detail payload is [release_date, genres, is_free]: release_date is    *)
(* the date string (<<>> when the field is missing, None or ""), genres    *)
(* the descriptions of the genre entries in payload order (<<>> for an     *)
(* entry without a description), is_free "true", "false" or "null"         *)
(* (missing).                                                              *)
(***************************************************************************)
Indie == <<"I", "n", "d", "i", "e">>
IndieLower == <<"i", "n", "d", "i", "e">>
IndieUpper == <<"I", "N", "D", "I", "E">>
Action == <<"A", "c", "t", "i", "o", "n">>
NoDescription == <<>>

\* re.search(r"(\d{4})", release_str) and int(match.group(1)): the first run
\* of four consecutive digits, None when release_str is empty or has none.
ReleaseYear(release_str) ==
    LET starts == {k \in 1..(Len(release_str) - 3) :
                      \A j \in 0..3 : IsDigit(release_str[k + j])}
    IN  IF release_str = <<>> \/ starts = {} THEN PyNone
        ELSE LET first == CHOOSE k \in starts : \A m \in starts : k <= m
             IN  PyInt(DigitsVal(SubSeq(release_str, first, first + 3)))

\* genre_list = [g.get("description") for g in genres if g.get("description")]
GenreList(genres) == SelectSeq(genres, LAMBDA d : d # NoDescription)

InList(x, list) == \E k \in 1..Len(list) : list[k] = x

\* Mutant: an unknown release year is let through.
YearRejectsKnownOnly(release_year, min_year) ==
    /\ min_year # PyNone
    /\ release_year # PyNone
    /\ release_year.i < min_year.i

\* if min_year is not None: if release_year is None or release_year < min_year: continue
YearRejects(release_year, min_year) ==
    /\ min_year # PyNone
    /\ (release_year = PyNone \/ release_year.i < min_year.i)

\* Mutant: every target is matched anywhere in the genre list.
GenreRejectsContains(genre_list, target_main_genre) ==
    /\ target_main_genre # PyNone
    /\ IF Lower(target_main_genre.s) = IndieLower
       THEN ~InList(Indie, genre_list)
       ELSE ~InList(target_main_genre.s, genre_list)

\* if target_main_genre is not None: "Indie" in genre_list for an indie
\* target, else the first genre (None for an empty list) must equal the target.
GenreRejects(genre_list, target_main_genre) ==
    /\ target_main_genre # PyNone
    /\ IF Lower(target_main_genre.s) = IndieLower
       THEN ~InList(Indie, genre_list)
       ELSE LET main_genre == IF genre_list # <<>> THEN PyStr(genre_list[1])
                              ELSE PyNone
            IN  main_genre # target_main_genre

\* if free_only is True and not is_free: continue
\* if free_only is False and is_free: continue
PriceRejects(is_free, free_only) ==
    \/ (free_only = "true" /\ ~(is_free = "true"))
    \/ (free_only = "false" /\ is_free = "true")

\* TRUE when the loop body reaches the review fetch for this payload.
PassesFilter(d, my, genre, fo) ==
    IF YearRejects(ReleaseYear(d.release_date), my) THEN FALSE
    ELSE IF GenreRejects(GenreList(d.genres), genre) THEN FALSE
    ELSE IF PriceRejects(d.is_free, fo) THEN FALSE
    ELSE TRUE

(***************************************************************************)
(* External collaborators of the scan and the ranking of                   *)
(* fetch_filtered_games.                                                   *)
(***************************************************************************)
\* What the app list endpoint may answer to a request carrying max_results:
\* any list of at most MaxApps entries.  The request parameter is the only
\* limit; the client never truncates the answer.  An entry is its appid,
\* 0 for an entry whose appid is missing or falsy.  App ids are opaque, so
\* the non-zero ones are named 1, 2, ... in list order.
get_app_list(max_results) ==
    {apps \in UNION {[1..n -> 0..MaxApps] : n \in 0..MaxApps} :
        LET ids == SelectSeq(apps, LAMBDA a : a # 0)
        IN  \A k \in 1..Len(ids) : ids[k] = k}

\* app_ids = [app["appid"] for app in apps if app.get("appid")]
get_sample_app_ids(apps) == SelectSeq(apps, LAMBDA a : a # 0)

\* The orders random.shuffle may leave a list in.
Shuffles(seq) ==
    {[k \in 1..Len(seq) |-> seq[f[k]]] : f \in Permutations(1..Len(seq))}

\* fetch_owners_proxy: every failure (an exception of the request, a status
\* other than 200, a missing or malformed owners range) is absorbed inside
\* the function and yields None; a range low..high yields its midpoint.
fetch_owners_proxy(resp) ==
    IF resp.kind = "range" THEN PyInt((resp.low + resp.high) \div 2)
    ELSE PyNone

OwnersResponses ==
    {[kind |-> k, low |-> 0, high |-> 0] : k \in {"raise", "non200"}}
    \cup {[kind |-> "range", low |-> 0, high |-> h] : h \in {0, 2}}

\* The outcome of fetch_review_summary and of the two reads of the summary:
\* the call raises, or returns None, or a summary holding total_reviews
\* (a summary without the key reads as None, like no summary).
ReviewOutcomes ==
    {[kind |-> "raise", total |-> PyNone], [kind |-> "none", total |-> PyNone],
     [kind |-> "summary", total |-> PyInt(0)],
     [kind |-> "summary", total |-> PyInt(1)]}

\* total_reviews of the row: None unless a truthy summary came back.
TotalReviews(rev) == IF rev.kind = "summary" THEN rev.total ELSE PyNone

\* The exception class of an error raised at a stage of the loop body.
ExcClass(stage) ==
    IF stage = "extract" THEN "AttributeError" ELSE "RequestException"

\* Mutant: the handler catches parse errors only.
LoopCatchesParseErrors(cls) == cls \in {"ValueError", "TypeError"}

\* except Exception as e: the loop's handler catches every Exception subclass.
LoopCatches(cls) ==
    cls \in {"RequestException", "AttributeError", "ValueError", "TypeError",
             "KeyError"}

\* Mutant: the break fires one acceptance late.
ShouldBreakLate(mode, n, tn) == mode = "random" /\ n > tn
\* Mutant: the break fires in both modes.
ShouldBreakAnyMode(mode, n, tn) == n >= tn

\* if sample_mode == "random" and len(candidates) >= target_n: break
ShouldBreak(mode, n, tn) == mode = "random" /\ n >= tn

\* x or 0
OrZero(x) == IF x = PyNone THEN 0 ELSE x.i

popularity_key(r) == <<OrZero(r.owners_proxy), OrZero(r.total_reviews)>>

\* Tuple comparison a < b.
KeyLess(a, b) == a[1] < b[1] \/ (a[1] = b[1] /\ a[2] < b[2])

Reverse(seq) == [k \in 1..Len(seq) |-> seq[Len(seq) + 1 - k]]

\* A stable ascending sort by popularity_key (insertion after equal keys).
RECURSIVE InsertAsc(_, _)
InsertAsc(sorted, x) ==
    IF sorted = <<>> THEN <<x>>
    ELSE IF KeyLess(popularity_key(x), popularity_key(Head(sorted)))
         THEN <<x>> \o sorted
         ELSE <<Head(sorted)>> \o InsertAsc(Tail(sorted), x)
RECURSIVE SortAsc(_)
SortAsc(seq) ==
    IF seq = <<>> THEN <<>>
    ELSE InsertAsc(SortAsc(SubSeq(seq, 1, Len(seq) - 1)), seq[Len(seq)])

\* Mutant: ascending sort reversed afterwards, which reverses equal keys.
SortedByPopularityUnstable(cands) == Reverse(SortAsc(cands))

\* sorted(candidates, key=popularity_key, reverse=True): the list is
\* reversed, sorted stably in ascending order, and reversed again, which
\* keeps records of equal key in their original order.
SortedByPopularity(cands) == Reverse(SortAsc(Reverse(cands)))

\* seq[:n]
Slice(seq, n) ==
    IF n >= 0 THEN SubSeq(seq, 1, IF n < Len(seq) THEN n ELSE Len(seq))
    ELSE SubSeq(seq, 1, Max(0, Len(seq) + n))

\* Mutant: the random reshuffle fires for a pool of exactly target_n records.
FinalOutputsShuffleAtTarget(cands, mode, tn) ==
    IF cands = <<>> THEN {<<>>}
    ELSE LET ranked == IF mode = "top" THEN SortedByPopularity(cands)
                       ELSE cands
         IN  IF Len(ranked) >= tn
             THEN {Slice(c, tn) :
                      c \in (IF mode = "random" THEN Shuffles(ranked)
                             ELSE {ranked})}
             ELSE {ranked}

\* Lines 330-350: the lists the run may write for a candidate pool.
FinalOutputs(cands, mode, tn) ==
    IF cands = <<>> THEN {<<>>}
    ELSE LET ranked == IF mode = "top" THEN SortedByPopularity(cands)
                       ELSE cands
         IN  IF Len(ranked) > tn
             THEN {Slice(c, tn) :
                      c \in (IF mode = "random" THEN Shuffles(ranked)
                             ELSE {ranked})}
             ELSE {ranked}

(***************************************************************************)
(* State.                                                                  *)
(***************************************************************************)
VARIABLES
    pc,                 \* position of the run
    config,             \* parse_filter_config: the raw tuple
    default_target_n,   \* parse_filter_config: default_target_n
    params,             \* parse_filter_config: the returned dict, or the error
    target_n,           \* fetch_filtered_games parameters
    min_year,
    target_main_genre,
    free_only,
    sample_mode,
    max_candidates,
    details,            \* the detail payload the filter is evaluated on
    decisions,          \* the filter's decisions on details, in order
    app_ids,            \* the identifier sequence being scanned
    idx,                \* identifiers consumed by the for loop
    candidates,         \* the candidate pool
    output,             \* the list written to output_path
    examined,           \* history: app ids passed to fetch_app_details
    errLoop,            \* history: stage whose error the last iteration raised
    errOwners,          \* history: the last iteration's owners fetch failed
    passed              \* history: identifiers that passed the filter

vars == <<pc, config, default_target_n, params, target_n, min_year,
          target_main_genre, free_only, sample_mode, max_candidates, details,
          decisions, app_ids, idx, candidates, output, examined, errLoop,
          errOwners, passed>>

parseVars == <<config, default_target_n, params>>
criteriaVars == <<min_year, target_main_genre, free_only>>
samplingVars == <<target_n, sample_mode, max_candidates>>
filterVars == <<details, decisions>>
scanVars == <<app_ids, idx, candidates, output, examined, errLoop, errOwners,
              passed>>

NoPayload == [release_date |-> <<>>, genres |-> <<>>, is_free |-> "null"]

ParseIdle ==
    /\ config = <<>>
    /\ default_target_n = DefaultTargetN
    /\ params = Failed("")
FilterIdle ==
    /\ details = NoPayload
    /\ decisions = <<>>
ScanIdle ==
    /\ app_ids = <<>>
    /\ idx = 0
    /\ candidates = <<>>
    /\ output = <<>>
    /\ examined = <<>>
    /\ errLoop = "none"
    /\ errOwners = FALSE
    /\ passed = 0
DefaultArguments ==
    /\ target_n = DefaultTargetN
    /\ min_year = PyNone
    /\ target_main_genre = PyNone
    /\ free_only = "null"
    /\ sample_mode = "random"
    /\ max_candidates = DefaultMaxCandidates

(***************************************************************************)
(* parse_filter_config on bounded inputs.                                  *)
(***************************************************************************)
RawTargetNs ==
    {PyNone}
    \cup {PyInt(n) : n \in (0 - MaxRawInt)..MaxRawInt \cup {100, 500}}
    \cup {PyStr(cs) : cs \in {<<>>, <<"0">>, <<"0", "0">>, <<" ", "7", " ">>,
                              <<"-", "1">>, <<"x">>}}
RawMinYears ==
    {PyNone, PyInt(0), PyInt(2020), PyStr(<<>>), PyStr(<<"0">>), PyStr(<<"x">>)}
PriceFlags == {PyInt(n) : n \in 0..3}
SampleFlags == {PyInt(n) : n \in 0..2}
RawGenres == {PyNone, PyStr(<<>>), PyStr(Indie), PyStr(<<" ", "A", " ">>),
              PyInt(0)}
RawMaxCandidates ==
    {PyNone}
    \cup {PyInt(n) : n \in (0 - MaxRawInt)..MaxRawInt \cup {3000}}
    \cup {PyStr(cs) : cs \in {<<>>, <<"0">>, <<"0", "0">>, <<"-", "1">>,
                              <<"x">>}}
DefaultTargetNs == {0, DefaultTargetN}

Configs ==
    {<<t, y, p, m, g>> : t \in RawTargetNs, y \in RawMinYears,
                         p \in PriceFlags, m \in SampleFlags, g \in RawGenres}
    \cup {<<t, PyInt(2020), p, m, PyStr(Indie), c>> :
             t \in RawTargetNs, p \in PriceFlags, m \in SampleFlags,
             c \in RawMaxCandidates}
    \cup {<<PyInt(1), PyInt(0), PyInt(0), PyInt(0)>>,
          <<PyInt(1), PyInt(0), PyInt(0), PyInt(0), PyNone, PyNone, PyNone>>}

InitParse ==
    /\ pc = "parse"
    /\ config \in Configs
    /\ default_target_n \in DefaultTargetNs
    /\ params = Failed("")
    /\ DefaultArguments
    /\ FilterIdle
    /\ ScanIdle

Parse ==
    /\ pc = "parse"
    /\ params' = parse_filter_config(config, default_target_n)
    /\ pc' = "parsed"
    /\ UNCHANGED <<config, default_target_n, criteriaVars, samplingVars,
                   filterVars, scanVars>>

NextParse == Parse
SpecParse == InitParse /\ [][NextParse]_vars

(***************************************************************************)
(* The filter on bounded payloads and criteria.                            *)
(***************************************************************************)
ReleaseDates ==
    {<<>>,
     <<"2", "0", "1", "9">>,
     <<"M", "a", "y", " ", "2", "0", "2", "1">>,
     <<"s", "o", "o", "n">>,
     <<"1", "2", "0", "2", "1">>,
     <<"2", "0", "2", " ", "1">>}
GenreLists ==
    {<<>>, <<Action, Indie>>, <<Indie, Action>>, <<Action>>, <<IndieLower>>,
     <<NoDescription, Action>>}
Payloads ==
    [release_date : ReleaseDates, genres : GenreLists,
     is_free : {"null", "true", "false"}]
FilterMinYears == {PyNone, PyInt(0), PyInt(2020)}
TargetGenres ==
    {PyNone, PyStr(Indie), PyStr(IndieLower), PyStr(IndieUpper), PyStr(Action)}
FreeOnlys == {"null", "true", "false"}

InitFilter ==
    /\ pc = "filter"
    /\ details \in Payloads
    /\ decisions = <<>>
    /\ min_year \in FilterMinYears
    /\ target_main_genre \in TargetGenres
    /\ free_only \in FreeOnlys
    /\ target_n = DefaultTargetN
    /\ sample_mode = "random"
    /\ max_candidates = DefaultMaxCandidates
    /\ ParseIdle
    /\ ScanIdle

\* One evaluation of lines 258-290 on the payload.
ApplyFilter ==
    /\ pc = "filter"
    /\ Len(decisions) < 2
    /\ decisions' = Append(decisions,
                           PassesFilter(details, min_year, target_main_genre,
                                        free_only))
    /\ UNCHANGED <<pc, details, parseVars, criteriaVars, samplingVars,
                   scanVars>>

NextFilter == ApplyFilter
SpecFilter == InitFilter /\ [][NextFilter]_vars

(***************************************************************************)
(* fetch_filtered_games: the scan, then the selection.                     *)
(***************************************************************************)
ScanCriteria ==
    {[min_year |-> PyNone, genre |-> PyNone, free_only |-> "null"],
     [min_year |-> PyInt(2020), genre |-> PyStr(Indie), free_only |-> "true"]}
FreeIndie2021 ==
    [release_date |-> <<"M", "a", "y", " ", "2", "0", "2", "1">>,
     genres |-> <<Action, Indie>>, is_free |-> "true"]
ScanPayloads ==
    {FreeIndie2021,
     [release_date |-> <<"2", "0", "1", "9">>,
      genres |-> <<Indie>>, is_free |-> "true"],
     [release_date |-> <<>>, genres |-> <<Action>>, is_free |-> "false"]}

\* What fetch_app_details and the reads of its payload may do: the call
\* raises, returns None (not a game, no success, status other than 200), or
\* returns a payload; bad names a field of the payload that is not of the
\* expected shape, so that reading it raises.
DetailOutcomes ==
    {[kind |-> k, bad |-> "none", d |-> NoPayload] : k \in {"raise", "none"}}
    \cup {[kind |-> "game", bad |-> "none", d |-> d] : d \in ScanPayloads}
    \cup {[kind |-> "game", bad |-> "genres", d |-> d] : d \in ScanPayloads}
    \cup {[kind |-> "game", bad |-> b, d |-> FreeIndie2021] :
             b \in {"release_date", "price_overview"}}

Skipped(stage, has_passed, owners_failed) ==
    [err |-> stage, passed |-> has_passed, owners_err |-> owners_failed,
     accepted |-> FALSE,
     row |-> [app_id |-> 0, owners_proxy |-> PyNone, total_reviews |-> PyNone]]

\* One pass through the loop body (lines 253-321) for app_id.
Iteration(app_id, det, rev, own, my, genre, fo) ==
    IF det.kind = "raise" THEN Skipped("detail", FALSE, FALSE)
    ELSE IF det.kind = "none" THEN Skipped("none", FALSE, FALSE)
    ELSE IF det.bad = "release_date" THEN Skipped("extract", FALSE, FALSE)
    ELSE IF det.bad = "genres"
         THEN (IF YearRejects(ReleaseYear(det.d.release_date), my)
               THEN Skipped("none", FALSE, FALSE)
               ELSE Skipped("extract", FALSE, FALSE))
    ELSE IF ~PassesFilter(det.d, my, genre, fo)
         THEN Skipped("none", FALSE, FALSE)
    ELSE IF rev.kind = "raise" THEN Skipped("review", TRUE, FALSE)
    ELSE IF det.bad = "price_overview"
         THEN Skipped("extract", TRUE, own.kind = "raise")
    ELSE [err |-> "none", passed |-> TRUE, owners_err |-> own.kind = "raise",
          accepted |-> TRUE,
          row |-> [app_id |-> app_id,
                   owners_proxy |-> fetch_owners_proxy(own),
                   total_reviews |-> TotalReviews(rev)]]

InitScan ==
    /\ pc = "begin"
    /\ target_n \in 0..MaxTargetN
    /\ sample_mode \in {"random", "top"}
    /\ max_candidates \in {-1, 1}
    /\ \E c \in ScanCriteria :
          /\ min_year = c.min_year
          /\ target_main_genre = c.genre
          /\ free_only = c.free_only
    /\ ParseIdle
    /\ FilterIdle
    /\ ScanIdle

\* Lines 240-250: the app list is requested and, in random mode, shuffled.
Begin ==
    /\ pc = "begin"
    /\ \E apps \in get_app_list(IF max_candidates = -1 THEN UnboundedMaxGames
                                ELSE max_candidates) :
          \E ids \in (IF sample_mode = "random"
                      THEN Shuffles(get_sample_app_ids(apps))
                      ELSE {get_sample_app_ids(apps)}) :
             app_ids' = ids
    /\ pc' = "scan"
    /\ UNCHANGED <<idx, candidates, output, examined, errLoop, errOwners,
                   passed, parseVars, criteriaVars, samplingVars, filterVars>>

\* Lines 252-328: one iteration of the for loop.
ScanStep ==
    /\ pc = "scan"
    /\ idx < Len(app_ids)
    /\ \E det \in DetailOutcomes, rev \in ReviewOutcomes,
          own \in OwnersResponses :
          LET r == Iteration(app_ids[idx + 1], det, rev, own, min_year,
                             target_main_genre, free_only)
              pool == IF r.accepted THEN Append(candidates, r.row)
                      ELSE candidates
          IN  /\ candidates' = pool
              /\ errLoop' = r.err
              /\ errOwners' = r.owners_err
              /\ passed' = passed + (IF r.passed THEN 1 ELSE 0)
              /\ pc' = IF r.err # "none" /\ ~LoopCatches(ExcClass(r.err))
                       THEN "raised"
                       ELSE IF r.accepted
                               /\ ShouldBreak(sample_mode, Len(pool), target_n)
                       THEN "select"
                       ELSE "scan"
    /\ idx' = idx + 1
    /\ examined' = Append(examined, app_ids[idx + 1])
    /\ UNCHANGED <<app_ids, output, parseVars, criteriaVars, samplingVars,
                   filterVars>>

\* The for loop ends when the sequence is exhausted.
ScanExhausted ==
    /\ pc = "scan"
    /\ idx = Len(app_ids)
    /\ pc' = "select"
    /\ UNCHANGED <<parseVars, criteriaVars, samplingVars, filterVars, scanVars>>

\* Lines 330-352: the empty result, or rank / shuffle / truncate, and the
\* write of the list.
Finish ==
    /\ pc = "select"
    /\ output' \in FinalOutputs(candidates, sample_mode, target_n)
    /\ pc' = "done"
    /\ UNCHANGED <<app_ids, idx, candidates, examined, errLoop, errOwners,
                   passed, parseVars, criteriaVars, samplingVars, filterVars>>

NextScan == Begin \/ ScanStep \/ ScanExhausted \/ Finish
SpecScan == InitScan /\ [][NextScan]_vars
\* The run is sequential and every call returns or raises (each request has
\* a timeout), so a step that can be taken is taken.
FairScan == SpecScan /\ WF_vars(NextScan)
Spec == SpecScan

(***************************************************************************)
(* Properties of parse_filter_config (checked under SpecParse).            *)
(***************************************************************************)
Parsed == pc = "parsed"
RawMax == IF Len(config) = 6 THEN config[6] ELSE PyNone
NullForm(raw) == raw \in {PyNone, PyInt(0), PyStr(<<>>), PyStr(<<"0">>)}

\* C5: on success max_candidates is max(target_n*5, 2000) (TOP) or
\* target_n*2 (RANDOM) for a missing or null-form 6th field, -1 for an
\* explicit -1, max(target_n*10, 2000) for any other explicit value <= 0,
\* and the value itself when positive; (0,0,0,0,"") with default 500 gives
\* 1000 and (100,2020,1,1,"Indie",0) gives 2000.
C5_MaxCandidates ==
    (Parsed /\ params.err = "") =>
        LET tn == params.target_n
            v == PyIntOf(RawMax).v
        IN  /\ NullForm(RawMax) =>
                  params.max_candidates =
                      (IF params.sample_mode = "top"
                       THEN (IF tn * 5 >= 2000 THEN tn * 5 ELSE 2000)
                       ELSE tn * 2)
            /\ (~NullForm(RawMax) /\ v = -1) => params.max_candidates = -1
            /\ (~NullForm(RawMax) /\ v <= 0 /\ v # -1) =>
                  params.max_candidates =
                      (IF tn * 10 >= 2000 THEN tn * 10 ELSE 2000)
            /\ (~NullForm(RawMax) /\ v > 0) => params.max_candidates = v
            /\ (config = <<PyInt(0), PyInt(0), PyInt(0), PyInt(0), PyStr(<<>>)>>
                /\ default_target_n = 500) =>
                  (params.target_n = 500 /\ params.max_candidates = 1000)
            /\ config = <<PyInt(100), PyInt(2020), PyInt(1), PyInt(1),
                          PyStr(Indie), PyInt(0)>> =>
                  params.max_candidates = 2000

\* An explicit -2 with target_n 500 has been mapped to 5000.
C5_Witness ==
    /\ Parsed
    /\ params.err = ""
    /\ RawMax = PyInt(-2)
    /\ params.target_n = 500
    /\ params.max_candidates = 5000

\* A numeric field that is a null form or parses as an integer.
NumericOrNull(raw) == raw \in {PyNone, PyStr(<<>>)} \/ PyIntOf(raw).ok
ValidConfig ==
    /\ Len(config) \in {5, 6}
    /\ NumericOrNull(config[1])
    /\ NumericOrNull(config[2])
    /\ config[3] \in {PyInt(0), PyInt(1), PyInt(2)}
    /\ config[4] \in {PyInt(0), PyInt(1)}
    /\ NumericOrNull(RawMax)

\* C8: on a valid config parse_filter_config does not raise; target_n is
\* default_target_n for a null / 0 / empty raw value or one parsing to <= 0,
\* the parsed value otherwise, hence positive when default_target_n is.
C8_TotalOnValidConfigs ==
    (Parsed /\ ValidConfig) =>
        LET raw == config[1]
            collapses == raw \in {PyNone, PyStr(<<>>)} \/ PyIntOf(raw).v <= 0
        IN  /\ params.err = ""
            /\ params.target_n =
                   (IF collapses THEN default_target_n ELSE PyIntOf(raw).v)
            /\ default_target_n > 0 => params.target_n > 0

\* A negative target_n has collapsed to the default.
C8_Witness ==
    /\ Parsed
    /\ ValidConfig
    /\ config[1] = PyInt(-1)
    /\ default_target_n = 500
    /\ params.target_n = 500

(***************************************************************************)
(* Properties of the filter (checked under SpecFilter).                    *)
(***************************************************************************)
Unconstrained == min_year = PyNone /\ free_only = "null"

\* C6 as stated: genres ["Action","Indie"] are accepted for target "Indie"
\* and rejected for target "Action".
C6_GenreSpecialCaseAsStated ==
    (decisions # <<>> /\ Unconstrained
        /\ details.genres = <<Action, Indie>>) =>
        /\ target_main_genre = PyStr(Indie) => decisions[1]
        /\ target_main_genre = PyStr(Action) => ~decisions[1]

\* C6 amended: genres ["Action","Indie"] are accepted for target "Indie" and
\* also for target "Action", their first genre; genres ["Indie","Action"]
\* are rejected for target "Action" (first-genre rule, not "contains").
C6_GenreSpecialCase ==
    (decisions # <<>> /\ Unconstrained) =>
        /\ (details.genres = <<Action, Indie>>
              /\ target_main_genre \in {PyStr(Indie), PyStr(Action)}) =>
                 decisions[1]
        /\ (details.genres = <<Indie, Action>>
              /\ target_main_genre = PyStr(Action)) => ~decisions[1]

\* ["Action","Indie"] has been accepted for target "Action".
C6_Witness ==
    /\ decisions # <<>>
    /\ Unconstrained
    /\ details.genres = <<Action, Indie>>
    /\ target_main_genre = PyStr(Action)
    /\ decisions[1]

\* C7: the filter accepts iff the year, genre and price conditions all
\* hold, and a second evaluation gives the same decision.
C7_FilterIsConjunction ==
    LET year == ReleaseYear(details.release_date)
        glist == SelectSeq(details.genres, LAMBDA d : d # <<>>)
        yearOk == min_year = PyNone
                    \/ (year # PyNone /\ year.i >= min_year.i)
        genreOk ==
            \/ target_main_genre = PyNone
            \/ /\ target_main_genre # PyNone
               /\ Lower(target_main_genre.s) = IndieLower
               /\ \E k \in 1..Len(glist) : glist[k] = Indie
            \/ /\ target_main_genre # PyNone
               /\ Lower(target_main_genre.s) # IndieLower
               /\ glist # <<>>
               /\ glist[1] = target_main_genre.s
        priceOk ==
            \/ free_only = "null"
            \/ (free_only = "true" /\ details.is_free = "true")
            \/ (free_only = "false" /\ details.is_free # "true")
    IN  \A k \in 1..Len(decisions) :
           /\ decisions[k] = (yearOk /\ genreOk /\ priceOk)
           /\ decisions[k] = decisions[1]

\* A payload has been accepted twice under three active criteria.
C7_Witness ==
    /\ Len(decisions) = 2
    /\ decisions[2]
    /\ min_year = PyInt(2020)
    /\ target_main_genre = PyStr(Action)
    /\ free_only = "false"

(***************************************************************************)
(* Properties of fetch_filtered_games (checked under SpecScan, and         *)
(* termination under FairScan).                                            *)
(***************************************************************************)
Stopped == pc \in {"select", "done"}
Done == pc = "done"
\* The position in app_ids of an app id (app ids of a list are distinct).
PosOf(id) == CHOOSE k \in 1..Len(app_ids) : app_ids[k] = id
\* No identifier after the one that completed the sample has been examined.
StoppedAtTarget ==
    /\ pc # "scan"
    /\ idx = PosOf(candidates[target_n].app_id)
    /\ examined = SubSeq(app_ids, 1, idx)

\* C1 as stated: in RANDOM mode, when at least target_n identifiers pass
\* the filter the run returns exactly target_n records, and nothing after
\* the identifier that completed the sample is examined.
C1_RandomAsStated ==
    sample_mode = "random" =>
        /\ (Done /\ passed >= target_n) => Len(output) = target_n
        /\ (target_n >= 1 /\ Len(candidates) >= target_n) => StoppedAtTarget

\* C1 amended: in RANDOM mode, when at least target_n identifiers are
\* accepted (pass the filter and raise no error while they are processed)
\* the run returns exactly target_n records, and nothing after the
\* identifier that completed the sample is examined.
C1_RandomEarlyStop ==
    sample_mode = "random" =>
        /\ (Done /\ Len(candidates) >= target_n) => Len(output) = target_n
        /\ (target_n >= 1 /\ Len(candidates) >= target_n) => StoppedAtTarget

\* The sample was completed by the first of two identifiers.
C1_Witness ==
    /\ sample_mode = "random"
    /\ Done
    /\ target_n = 1
    /\ Len(output) = 1
    /\ Len(app_ids) = 2
    /\ examined = <<app_ids[1]>>

\* C2: in TOP mode the output is the first target_n records of the pool in
\* descending order of (owners_proxy or 0, total_reviews or 0), records of
\* equal key in acceptance order.
C2_TopRanking ==
    (sample_mode = "top" /\ Done) =>
        LET key(r) == <<IF r.owners_proxy = PyNone THEN 0
                        ELSE r.owners_proxy.i,
                        IF r.total_reviews = PyNone THEN 0
                        ELSE r.total_reviews.i>>
            acc(r) == CHOOSE k \in 1..Len(candidates) : candidates[k] = r
            \* a ranks strictly before b
            before(a, b) ==
                \/ key(a)[1] > key(b)[1]
                \/ (key(a)[1] = key(b)[1] /\ key(a)[2] > key(b)[2])
                \/ (key(a) = key(b) /\ acc(a) < acc(b))
            pool == {candidates[k] : k \in 1..Len(candidates)}
            out == {output[k] : k \in 1..Len(output)}
        IN  /\ Len(output) = (IF target_n < Len(candidates) THEN target_n
                              ELSE Len(candidates))
            /\ out \subseteq pool
            /\ \A i, j \in 1..Len(output) :
                  i < j => before(output[i], output[j])
            /\ \A a \in out, b \in pool \ out : before(a, b)

\* Two records tie through a null owners_proxy and keep acceptance order.
C2_Witness ==
    /\ sample_mode = "top"
    /\ Done
    /\ Len(candidates) = 2
    /\ candidates[1].owners_proxy = PyNone
    /\ candidates[2].owners_proxy = PyInt(0)
    /\ candidates[1].total_reviews = candidates[2].total_reviews
    /\ output = candidates

\* C3: a positive max_candidates bounds the number of identifiers examined
\* whatever the catalog returns; with -1 only the sequence's length does.
C3_CandidateBound ==
    /\ max_candidates > 0 => Len(examined) <= max_candidates
    /\ max_candidates = -1 => Len(examined) <= Len(app_ids)

IterationDone == pc = "scan" /\ idx' = idx + 1

\* C4 as stated: an error in the detail fetch, the review fetch, the owners
\* fetch or the extraction leaves the pool unchanged and the scan running,
\* and never reaches the caller.
C4_ErrorsSkipAsStated ==
    /\ [][(IterationDone /\ (errLoop' # "none" \/ errOwners')) =>
             (candidates' = candidates /\ pc' = "scan")]_vars
    /\ [](pc # "raised")

\* C4 amended: an error of the detail fetch, the review fetch or the
\* extraction is caught by the loop (no record, pool unchanged, the scan
\* goes on, nothing reaches the caller); a failure of the owners fetch is
\* absorbed inside fetch_owners_proxy and the record is still contributed,
\* with a null owners_proxy.
C4_ErrorsSkip ==
    /\ [][(IterationDone /\ errLoop' # "none") =>
             (candidates' = candidates /\ pc' = "scan")]_vars
    /\ [][(IterationDone /\ errLoop' = "none" /\ errOwners') =>
             /\ Len(candidates') = Len(candidates) + 1
             /\ SubSeq(candidates', 1, Len(candidates)) = candidates
             /\ candidates'[Len(candidates')].owners_proxy = PyNone]_vars
    /\ [](pc # "raised")

\* A review fetch failed after a record had been accepted; the pool is kept
\* and the scan goes on.
C4_Witness ==
    /\ pc = "scan"
    /\ errLoop = "review"
    /\ idx = 2
    /\ Len(candidates) = 1

\* Steps the run has left at most: the call of the app list, one iteration
\* per identifier not yet consumed, the end of the loop, the selection.
Remaining ==
    CASE pc = "begin" -> MaxApps + 3
      [] pc = "scan" -> (Len(app_ids) - idx) + 2
      [] pc = "select" -> 1
      [] OTHER -> 0

\* Termination stated as a temporal formula, for FairScan.
EventuallyDone == <>Done

\* C9: the run terminates (every step lowers Remaining, a natural number,
\* and until the run is done its next step can be taken, errors and empty
\* pools included); when the scan has stopped, every identifier has been examined
\* once in sequence order, or the mode is RANDOM and the pool has reached
\* target_n; an empty pool gives an empty result.
C9_Terminates ==
    /\ [][Remaining' < Remaining]_vars
    /\ [](Remaining >= 0)
    /\ [](pc \in {"begin", "scan", "select", "done"})
    /\ [](pc = "begin" => ENABLED Begin)
    /\ [](pc = "scan" => ENABLED (ScanStep \/ ScanExhausted))
    /\ [](pc = "select" =>
            FinalOutputs(candidates, sample_mode, target_n) # {})
    /\ [](Stopped =>
            \/ examined = app_ids
            \/ (sample_mode = "random" /\ Len(candidates) >= target_n))
    /\ []((Stopped /\ sample_mode = "top") => examined = app_ids)
    /\ []((Done /\ candidates = <<>>) => output = <<>>)

\* A run of two identifiers ended empty, the last iteration on an error.
C9_Witness ==
    /\ Done
    /\ Len(app_ids) = 2
    /\ examined = app_ids
    /\ errLoop # "none"
    /\ output = <<>>

\* C10: in RANDOM mode with target_n >= 1 the pool never exceeds target_n,
\* and the output is the pool in acceptance order.
C10_NoOvershoot ==
    (sample_mode = "random" /\ target_n >= 1) =>
        /\ Len(candidates) <= target_n
        /\ Done => output = candidates

\* A RANDOM run filled its sample of two and wrote it unchanged.
C10_Witness ==
    /\ sample_mode = "random"
    /\ target_n = 2
    /\ Done
    /\ Len(candidates) = 2
    /\ output = candidates
=============================================================================
